---- MODULE Spec2Model ----
(***************************************************************************)
(* Model of examples/tutorial_2_FCN.ipynb: a two-layer fully connected     *)
(* spiking network (fc1 -> lif1 -> fc2 -> lif2) unrolled over num_steps    *)
(* discrete steps, its rate-coded input, and the BPTT training loop.       *)
(*                                                                         *)
(* Numbers are fixed-point: the integer v stands for the real v / Scale,   *)
(* and a product is rounded down to a multiple of 1 / Scale.  Tensors are  *)
(* sequences of rows (one row per batch entry), a row is a sequence of     *)
(* numbers.  The classes snn.Stein, snn.FastSigmoidSurrogate and           *)
(* spikegen.rate are used by the notebook but defined outside it; they are *)
(* modelled from their documented contract.                                *)
(***************************************************************************)
EXTENDS Integers, Sequences, FiniteSets, TLC

VARIABLES
    alpha,        \* global: synaptic decay rate handed to snn.Stein
    beta,         \* global: membrane decay rate handed to snn.Stein
    threshold,    \* the threshold argument of snn.Stein (default 1.0)
    batch_size,   \* global: read by Net.forward when it seeds the state
    mode,         \* "static": cur1 = fc1(x); "spiking": cur1 = fc1(x[step])
    weights,      \* identifies the current values of fc1 / fc2 parameters
    net,          \* NoNet, or the constructed network (its two Stein layers)
    pc,           \* position of Net.forward
    x,            \* argument of the running / last forward call
    step,         \* loop variable of Net.forward
    spk1, syn1, mem1,     \* state of layer 1 (locals of Net.forward)
    spk2, syn2, mem2,     \* state of layer 2 (locals of Net.forward)
    cur1, cur2,           \* input currents computed in the last iteration
    spk2_rec, mem2_rec,   \* the history lists built by Net.forward
    ret,          \* value returned by the last forward call, or NoValue
    err,          \* exception raised by the last constructor / forward call
    first_spk1,   \* history: per layer-1 neuron, the iteration (1-based) of its
                  \* first spike in the running forward call, 0 if none yet
    first,        \* history: <<x, ret, later>> of the first forward call that
                  \* returned (calls of the static network made outside the
                  \* training cell); later: a call on another input has
                  \* followed it
    tpc,          \* statement of the training cell that runs next
    in_call,      \* TRUE while that statement's call of net(...) is running
    epoch,        \* loop variable of the epoch loop, -1 before the loop
    minibatch_counter, counter,           \* counters of the training cell
    remaining,    \* images the iterator over train_loader has not served yet
    data_it,      \* current training minibatch
    spike_data,   \* its rate-coded spike train
    testdata_it,  \* current test minibatch
    test_spike_data,      \* its rate-coded spike train
    loss_val,     \* the loss: the list of step indices whose term was added
    loss_step,    \* loop variable of the loss loop
    grads,        \* the parameters' .grad: its state and the loss terms whose
                  \* gradient it holds
    loss_hist, test_loss_hist,            \* recorded losses
    ops,          \* history: operations of the current minibatch, in order
    fc1_in,       \* history: what fc1 was handed in each iteration so far of
                  \* the running / last forward call
    spike_grad,   \* global: the surrogate function, or Unbound
    slope,        \* snn.slope as set by the notebook, 0 while it has not
    temp_bs,      \* global of the test-set cell: the saved batch_size
    total,        \* global of the test-set cell: images evaluated so far
    test_loader,  \* batch size of the test-set cell's DataLoader, 0 before
    sg_input,     \* tensor handed to the surrogate's backward function
    sg_grad,      \* the gradient factors it returned, NoValue before
    cell          \* number of cells of Cells that have been run

vars == <<alpha, beta, threshold, batch_size, mode, weights, net, pc, x, step,
          spk1, syn1, mem1, spk2, syn2, mem2, cur1, cur2, spk2_rec, mem2_rec,
          ret, err, first_spk1, first, tpc, in_call, epoch, minibatch_counter,
          counter, remaining, data_it, spike_data, testdata_it, test_spike_data,
          loss_val, loss_step, grads, loss_hist, test_loss_hist, ops, fc1_in,
          spike_grad, slope, temp_bs, total, test_loader, sg_input, sg_grad,
          cell>>

-----------------------------------------------------------------------------
(* Sizes.  The notebook uses 784-1000-10, batches of 128 and 25 steps; the *)
(* model keeps the structure and scales the sizes down.                    *)

Scale == 1000          \* fixed-point unit: Scale stands for 1.0
NumInputs == 2         \* num_inputs
NumHidden == 2         \* num_hidden
NumOutputs == 1        \* num_outputs
BatchSize == 2         \* batch_size
NumSteps == 4          \* num_steps
NumImages == 3         \* number of images in the data set
MaxWeightId == 2       \* number of distinct parameter values of fc1 / fc2
MaxSlope == 2          \* slopes 1..MaxSlope are tried besides the notebook's
MaxGradIn == 3         \* largest |x| handed to the surrogate's backward, in
                       \* units of 1 / GradUnit
GradUnit == 4          \* resolution of the surrogate's backward input

Alpha == 635           \* float(np.exp(-time_step/tau_syn)) = 0.6347...
Beta == 717            \* float(np.exp(-time_step/tau_mem)) = 0.7165...
DefaultThreshold == Scale   \* snn.Stein's default threshold, 1.0
Slope == 50            \* snn.slope = 50

NoNet == [err |-> "NoNet"]     \* no network has been constructed
NoValue == <<>>                \* nothing has been returned
Unbound == "Unbound"           \* a global name no cell has assigned yet
FastSigmoidSurrogate == "FastSigmoidSurrogate"  \* snn.FastSigmoidSurrogate.apply

\* Decay rates and thresholds a caller may hand to snn.Stein.
InvalidDecays == {0 - (Scale \div 2), 0, Scale, 2 * Scale}
ThresholdChoices == {DefaultThreshold, 0, 0 - Scale}

-----------------------------------------------------------------------------
(* Fixed-point arithmetic and tensors.                                     *)

Mul(a, b) == (a * b) \div Scale

Shape(t) == IF t = <<>> THEN <<0, 0>> ELSE <<Len(t), Len(t[1])>>

Zeros(n, w) == [r \in 1..n |-> [j \in 1..w |-> 0]]

RECURSIVE SumTo(_, _)
SumTo(f, n) == IF n = 0 THEN 0 ELSE f[n] + SumTo(f, n - 1)

\* Values of the parameters of fc1 = nn.Linear(num_inputs, num_hidden) and
\* fc2 = nn.Linear(num_hidden, num_outputs) under parameter value w.
LinearWeight(w, j, i) ==
    IF w = 1 THEN Scale \div 2
    ELSE IF (i + j + w) % 2 = 0 THEN (4 * Scale) \div 5 ELSE 0 - (3 * Scale) \div 10

Fc1Bias(w, j) == (w - 1) * (Scale \div 10)

Fc2Bias(w, j) == 0 - (w - 1) * (Scale \div 20)

\* y = x W^T + b for every row of the batch.
fc1(w, xin) ==
    [r \in 1..Len(xin) |->
        [j \in 1..NumHidden |->
            Fc1Bias(w, j)
            + SumTo([i \in 1..NumInputs |-> Mul(LinearWeight(w, j, i), xin[r][i])],
                    NumInputs)]]

fc2(w, xin) ==
    [r \in 1..Len(xin) |->
        [j \in 1..NumOutputs |->
            Fc2Bias(w, j)
            + SumTo([i \in 1..NumHidden |-> Mul(LinearWeight(w, j, i), xin[r][i])],
                    NumHidden)]]

-----------------------------------------------------------------------------
(* The data set: images with pixel values in [0, 1].                       *)

Pixel(s, i) ==
    IF s = 1 THEN 0
    ELSE IF s = 2 THEN Scale
    ELSE ((s + i) % 2) * Scale

Image(s) == [i \in 1..NumInputs |-> Pixel(s, i)]

BatchData(b) == [r \in 1..Len(b) |-> Image(b[r])]

\* The minibatches of n images a DataLoader may serve (shuffle=True: any n
\* images, none twice).  Rows of a batch do not interact, so the order the
\* shuffle gives them is left out: the images come in increasing order.
LoaderBatches(n) ==
    {b \in [1..n -> 1..NumImages] : \A p, q \in 1..n : p < q => b[p] < b[q]}

Range(f) == {f[i] : i \in DOMAIN f}

-----------------------------------------------------------------------------
(* snn.FastSigmoidSurrogate and snn.Stein.                                 *)

\* Variant: the boundary v = 0 does not fire.
SurrogateForwardStrict(v) == IF v > 0 THEN Scale ELSE 0

\* Forward of the spike nonlinearity: a Heaviside step of mem - threshold.
SurrogateForward(v) == IF v >= 0 THEN Scale ELSE 0

Abs(v) == IF v < 0 THEN 0 - v ELSE v

\* Exact rationals num / den with den > 0, and their order.
Frac(n, d) == [num |-> n, den |-> d]

FracLess(p, q) == p.num * q.den < q.num * p.den

FracEq(p, q) == p.num * q.den = q.num * p.den

\* Variant: the sign of x is kept (1 + slope x in place of 1 + slope |x|).
SurrogateBackwardSigned(sl, v, g) ==
    Frac(g * sl * GradUnit * GradUnit, (GradUnit + sl * v) * (GradUnit + sl * v))

\* Backward of the spike nonlinearity for the element x = v / GradUnit and the
\* upstream gradient g: g slope / (1 + slope |x|)^2, as an exact rational.
SurrogateBackward(sl, v, g) ==
    Frac(g * sl * GradUnit * GradUnit,
         (GradUnit + sl * Abs(v)) * (GradUnit + sl * Abs(v)))

\* Variant: out-of-range parameters are clamped into range, not rejected.
SteinClamped(a, b, th) ==
    LET Clamp(v) == IF v <= 0 THEN 1 ELSE IF v >= Scale THEN Scale - 1 ELSE v
    IN  [err |-> "none", alpha |-> Clamp(a), beta |-> Clamp(b),
         threshold |-> IF th <= 0 THEN DefaultThreshold ELSE th]

\* snn.Stein(alpha, beta, spike_grad, threshold): the layer handle, or the
\* error raised by the constructor.
Stein(a, b, th) ==
    IF a <= 0 \/ a >= Scale \/ b <= 0 \/ b >= Scale \/ th <= 0
    THEN [err |-> "ConfigError"]
    ELSE [err |-> "none", alpha |-> a, beta |-> b, threshold |-> th]

\* lif.init_stein(batch_size, width): zero spk, syn and mem.
init_stein(n, w) == [spk |-> Zeros(n, w), syn |-> Zeros(n, w), mem |-> Zeros(n, w)]

\* One step of a layer, lif(input_current, syn, mem) -> (spk, syn, mem).  The
\* reset term is the spike the layer emits for the membrane value handed in.
Stein_forward(lif, cur, syn, mem) ==
    IF Shape(cur) # Shape(syn) \/ Shape(cur) # Shape(mem)
    THEN [err |-> "ShapeError", spk |-> <<>>, syn |-> <<>>, mem |-> <<>>]
    ELSE LET synN == [r \in DOMAIN cur |-> [j \in DOMAIN cur[r] |->
                         Mul(lif.alpha, syn[r][j]) + cur[r][j]]]
             memN == [r \in DOMAIN cur |-> [j \in DOMAIN cur[r] |->
                         Mul(lif.beta, mem[r][j]) + synN[r][j]
                         - Mul(SurrogateForward(mem[r][j] - lif.threshold),
                               lif.threshold)]]
             spkN == [r \in DOMAIN cur |-> [j \in DOMAIN cur[r] |->
                         SurrogateForward(memN[r][j] - lif.threshold)]]
         IN  [err |-> "none", spk |-> spkN, syn |-> synN, mem |-> memN]

-----------------------------------------------------------------------------
(* spikegen.rate.                                                          *)

\* Firing probability of an element of value v: clip(gain v + offset, 0, 1).
RateProb(v, gain, offset) ==
    LET q == Mul(gain, v) + offset
    IN  IF q < 0 THEN 0 ELSE IF q > Scale THEN Scale ELSE q

\* The outcomes of one Bernoulli draw with probability q.
Bernoulli(q) == IF q >= Scale THEN {Scale} ELSE IF q <= 0 THEN {0} ELSE {0, Scale}

\* The possible slices of a spike train of sample: one draw per element.  An
\* outcome is fixed by the set of undecided elements (two outcomes) that fire.
RateSlices(sample, gain, offset) ==
    LET Draws(r, j) == Bernoulli(RateProb(sample[r][j], gain, offset))
        open == {e \in (DOMAIN sample) \X (DOMAIN sample[1]) :
                    Draws(e[1], e[2]) = {0, Scale}}
    IN  {[r \in DOMAIN sample |-> [j \in DOMAIN sample[r] |->
            IF <<r, j>> \in open
            THEN (IF <<r, j>> \in fire THEN Scale ELSE 0)
            ELSE CHOOSE v \in Draws(r, j) : TRUE]] : fire \in SUBSET open}

\* spikegen.rate(sample, num_steps, gain, offset): the spike trains it may
\* return, num_steps independent slices.
rate(sample, n, gain, offset) == [1..n -> RateSlices(sample, gain, offset)]

\* Variant: the call passes gain=0.5.
RateCallHalfGain(sample) == rate(sample, NumSteps, Scale \div 2, 0)

\* spikegen.rate(data, targets, num_steps=num_steps, gain=1, offset=0, ...)
RateCall(sample) == rate(sample, NumSteps, Scale, 0)

\* Samples handed to the encoder: batch_size rows of pixels 0 or 1, of which
\* at most one pixel may be gray (0.5).
RateSamples ==
    {t \in [1..BatchSize -> [1..NumInputs -> {0, Scale \div 2, Scale}]] :
        Cardinality({e \in (1..BatchSize) \X (1..NumInputs) :
                        t[e[1]][e[2]] = Scale \div 2}) <= 1}

-----------------------------------------------------------------------------
(* class Net.                                                              *)

\* Net.__init__: both layers are built from the globals alpha, beta and
\* spike_grad; reading a global that is not bound raises NameError before
\* snn.Stein is entered.
Net_init(sg, a, b, th) ==
    LET l1 == Stein(a, b, th)
        l2 == Stein(a, b, th)
    IN  IF sg = Unbound THEN [err |-> "NameError"]
        ELSE IF l1.err # "none" THEN [err |-> l1.err]
        ELSE IF l2.err # "none" THEN [err |-> l2.err]
        ELSE [err |-> "none", lif1 |-> l1, lif2 |-> l2]

\* Variant: the state is seeded once and then kept from call to call.
InitStateLazy(old, n, w) == IF old.syn = <<>> THEN init_stein(n, w) ELSE old

\* The locals (spk, syn, mem) of a layer after the init_stein line of
\* Net.forward, given what they held before it.
InitState(old, n, w) == init_stein(n, w)

\* Variant: the spiking network reads the first slice in every iteration.
StepInputHeld(m, xin, t) == IF m = "static" THEN xin ELSE xin[1]

\* The input of fc1 at iteration t (0-based).
StepInput(m, xin, t) == IF m = "static" THEN xin ELSE xin[t + 1]

\* Variant: syn1 and mem1 are handed over in the wrong order.
Lif1CallSwapped(nt, cur, syn, mem) == Stein_forward(nt.lif1, cur, mem, syn)

Lif1Call(nt, cur, syn, mem) == Stein_forward(nt.lif1, cur, syn, mem)

Lif2Call(nt, cur, syn, mem) == Stein_forward(nt.lif2, cur, syn, mem)

Failed(e) == [err |-> e, in1 |-> <<>>, cur1 |-> <<>>, cur2 |-> <<>>,
              l1 |-> [spk |-> <<>>, syn |-> <<>>, mem |-> <<>>],
              l2 |-> [spk |-> <<>>, syn |-> <<>>, mem |-> <<>>]]

\* Variant: an exception of a layer is swallowed and the layer's step skipped.
LoopBodySkip(nt, m, w, xin, t, s1, s2) ==
    LET i1 == StepInput(m, xin, t)
        c1 == fc1(w, i1)
        r1 == Lif1Call(nt, c1, s1.syn, s1.mem)
        n1 == IF r1.err # "none" THEN s1
              ELSE [spk |-> r1.spk, syn |-> r1.syn, mem |-> r1.mem]
        c2 == fc2(w, n1.spk)
        r2 == Lif2Call(nt, c2, s2.syn, s2.mem)
        n2 == IF r2.err # "none" THEN s2
              ELSE [spk |-> r2.spk, syn |-> r2.syn, mem |-> r2.mem]
    IN  [err |-> "none", in1 |-> i1, cur1 |-> c1, cur2 |-> c2,
         l1 |-> n1, l2 |-> n2]

\* Variant: fc2 is evaluated before lif1, on the spike of the iteration
\* before.
LoopBodyStale(nt, m, w, xin, t, s1, s2) ==
    LET i1 == StepInput(m, xin, t)
        c1 == fc1(w, i1)
        c2 == fc2(w, s1.spk)
        r1 == Lif1Call(nt, c1, s1.syn, s1.mem)
    IN  IF r1.err # "none" THEN Failed(r1.err)
        ELSE LET r2 == Lif2Call(nt, c2, s2.syn, s2.mem)
             IN  IF r2.err # "none" THEN Failed(r2.err)
                 ELSE [err |-> "none", in1 |-> i1, cur1 |-> c1, cur2 |-> c2,
                       l1 |-> [spk |-> r1.spk, syn |-> r1.syn, mem |-> r1.mem],
                       l2 |-> [spk |-> r2.spk, syn |-> r2.syn, mem |-> r2.mem]]

\* One iteration of the loop of Net.forward, up to the appends.
LoopBody(nt, m, w, xin, t, s1, s2) ==
    LET i1 == StepInput(m, xin, t)
        c1 == fc1(w, i1)
        r1 == Lif1Call(nt, c1, s1.syn, s1.mem)
    IN  IF r1.err # "none" THEN Failed(r1.err)
        ELSE LET c2 == fc2(w, r1.spk)
                 r2 == Lif2Call(nt, c2, s2.syn, s2.mem)
             IN  IF r2.err # "none" THEN Failed(r2.err)
                 ELSE [err |-> "none", in1 |-> i1, cur1 |-> c1, cur2 |-> c2,
                       l1 |-> [spk |-> r1.spk, syn |-> r1.syn, mem |-> r1.mem],
                       l2 |-> [spk |-> r2.spk, syn |-> r2.syn, mem |-> r2.mem]]

\* Variant: the new entry is put in front of the list.
RecAppendFront(rec, v) == <<v>> \o rec

\* spk2_rec.append(spk2) / mem2_rec.append(mem2)
RecAppend(rec, v) == Append(rec, v)

\* torch.stack(spk2_rec, dim=0), torch.stack(mem2_rec, dim=0)
Stack(srec, mrec) == <<srec, mrec>>

-----------------------------------------------------------------------------
(* Actions.                                                                *)

netVars == <<alpha, beta, threshold, batch_size, mode, weights, net>>
fwdVars == <<pc, x, step, spk1, syn1, mem1, spk2, syn2, mem2, cur1, cur2,
             spk2_rec, mem2_rec, ret, first_spk1, first, fc1_in>>
testVars == <<temp_bs, total, test_loader>>
nbVars == <<spike_grad, slope, testVars, sg_input, sg_grad, cell>>
trainVars == <<tpc, in_call, epoch, minibatch_counter, counter, remaining,
               data_it, spike_data, testdata_it, test_spike_data, loss_val,
               loss_step, grads, loss_hist, test_loss_hist, ops>>

\* net = Net(): the constructor either yields the network or raises.
Construct ==
    /\ net = NoNet
    /\ err = "none"
    /\ LET n == Net_init(spike_grad, alpha, beta, threshold)
       IN  IF n.err # "none"
           THEN /\ err' = n.err
                /\ net' = net
           ELSE /\ net' = n
                /\ err' = err
    /\ UNCHANGED <<alpha, beta, threshold, batch_size, mode, weights>>
    /\ UNCHANGED nbVars
    /\ UNCHANGED fwdVars
    /\ UNCHANGED trainVars

\* Entry of Net.forward(xin): seed both layers' state, empty histories.
Forward_enter(xin) ==
    /\ net # NoNet
    /\ LET s1 == InitState([spk |-> spk1, syn |-> syn1, mem |-> mem1],
                           batch_size, NumHidden)
           s2 == InitState([spk |-> spk2, syn |-> syn2, mem |-> mem2],
                           batch_size, NumOutputs)
       IN  /\ spk1' = s1.spk /\ syn1' = s1.syn /\ mem1' = s1.mem
           /\ spk2' = s2.spk /\ syn2' = s2.syn /\ mem2' = s2.mem
    /\ spk2_rec' = <<>>
    /\ mem2_rec' = <<>>
    /\ x' = xin
    /\ step' = 0
    /\ pc' = "loop"
    /\ ret' = NoValue
    /\ err' = "none"
    /\ first_spk1' = Zeros(batch_size, NumHidden)
    /\ first' = IF first # <<>> /\ xin # first[1]
                THEN <<first[1], first[2], TRUE>> ELSE first
    /\ fc1_in' = <<>>
    /\ cur1' = <<>>
    /\ cur2' = <<>>
    /\ UNCHANGED netVars
    /\ UNCHANGED nbVars

\* A caller invokes net(x) on a minibatch of any size.
Call ==
    /\ pc \in {"idle", "returned", "aborted"}
    /\ mode = "static"
    /\ tpc = "none"
    /\ \E n \in 1..NumImages : \E b \in LoaderBatches(n) :
          Forward_enter(BatchData(b))
    /\ UNCHANGED trainVars

\* One iteration of the for-loop of Net.forward.  An exception raised by a
\* layer leaves the function: nothing is returned.
ForwardStep ==
    /\ pc = "loop"
    /\ step < NumSteps
    /\ LET out == LoopBody(net, mode, weights, x, step,
                           [spk |-> spk1, syn |-> syn1, mem |-> mem1],
                           [spk |-> spk2, syn |-> syn2, mem |-> mem2])
       IN  IF out.err # "none"
           THEN /\ pc' = "aborted"
                /\ err' = out.err
                /\ UNCHANGED <<step, spk1, syn1, mem1, spk2, syn2, mem2,
                               cur1, cur2, spk2_rec, mem2_rec, first_spk1,
                               fc1_in>>
           ELSE /\ fc1_in' = Append(fc1_in, out.in1)
                /\ cur1' = out.cur1
                /\ spk1' = out.l1.spk /\ syn1' = out.l1.syn /\ mem1' = out.l1.mem
                /\ cur2' = out.cur2
                /\ spk2' = out.l2.spk /\ syn2' = out.l2.syn /\ mem2' = out.l2.mem
                /\ spk2_rec' = RecAppend(spk2_rec, out.l2.spk)
                /\ mem2_rec' = RecAppend(mem2_rec, out.l2.mem)
                /\ step' = step + 1
                /\ first_spk1' =
                       [r \in DOMAIN first_spk1 |-> [j \in DOMAIN first_spk1[r] |->
                           IF first_spk1[r][j] = 0 /\ out.l1.spk[r][j] # 0
                           THEN step + 1 ELSE first_spk1[r][j]]]
                /\ UNCHANGED <<pc, err>>
    /\ UNCHANGED <<x, ret, first>>
    /\ UNCHANGED netVars
    /\ UNCHANGED nbVars
    /\ UNCHANGED trainVars

\* The loop is over: return the stacked histories.
ForwardReturn ==
    /\ pc = "loop"
    /\ step = NumSteps
    /\ ret' = Stack(spk2_rec, mem2_rec)
    /\ pc' = "returned"
    /\ first' = IF tpc = "none" /\ mode = "static" /\ first = <<>>
                THEN <<x, ret', FALSE>> ELSE first
    /\ UNCHANGED <<x, step, spk1, syn1, mem1, spk2, syn2, mem2, cur1, cur2,
                   spk2_rec, mem2_rec, err, first_spk1, fc1_in>>
    /\ UNCHANGED netVars
    /\ UNCHANGED nbVars
    /\ UNCHANGED trainVars

-----------------------------------------------------------------------------
(* The network in use: construct it, then call forward on minibatches.     *)

\* Before any call of forward and before the training cell has run.
FreshKernel ==
    /\ pc = "idle"
    /\ x = <<>>
    /\ step = 0
    /\ spk1 = <<>> /\ syn1 = <<>> /\ mem1 = <<>>
    /\ spk2 = <<>> /\ syn2 = <<>> /\ mem2 = <<>>
    /\ cur1 = <<>> /\ cur2 = <<>>
    /\ spk2_rec = <<>> /\ mem2_rec = <<>>
    /\ ret = NoValue
    /\ err = "none"
    /\ first_spk1 = <<>>
    /\ first = <<>>
    /\ fc1_in = <<>>
    /\ temp_bs = 0 /\ total = 0 /\ test_loader = 0
    /\ sg_grad = NoValue
    /\ cell = 0
    /\ in_call = FALSE
    /\ epoch = 0 - 1 /\ minibatch_counter = 0 /\ counter = 0
    /\ remaining = {}
    /\ spike_data = <<>>
    /\ testdata_it = <<>> /\ test_spike_data = <<>>
    /\ loss_val = <<>> /\ loss_step = 0
    /\ grads = [state |-> "none", of |-> <<>>]
    /\ loss_hist = <<>> /\ test_loss_hist = <<>>
    /\ ops = <<>>

Init ==
    /\ alpha \in {Alpha} \cup InvalidDecays
    /\ beta \in {Beta} \cup InvalidDecays
    /\ threshold \in ThresholdChoices
    /\ batch_size = BatchSize
    /\ mode = "static"
    /\ weights \in 1..MaxWeightId
    /\ net = NoNet
    /\ spike_grad = FastSigmoidSurrogate
    /\ slope = Slope
    /\ tpc = "none"
    /\ data_it = <<>>
    /\ sg_input = <<>>
    /\ FreshKernel

Next ==
    \/ Construct
    \/ Call
    \/ ForwardStep
    \/ ForwardReturn

Spec == Init /\ [][Next]_vars

-----------------------------------------------------------------------------
(* A constructed network of either kind is called on minibatches: the      *)
(* static one on images, the spiking one on rate-coded spike trains.       *)

\* Minibatches whose first image has a gray pixel (0.5): their spike trains
\* differ from slice to slice.
GraySamples ==
    {[BatchData(b) EXCEPT ![1][1] = Scale \div 2] : b \in LoaderBatches(BatchSize)}

\* spike_data = spikegen.rate(data_it, ...); net(spike_data.view(num_steps,
\* batch_size, -1))
CallSpiking ==
    /\ pc \in {"idle", "returned", "aborted"}
    /\ mode = "spiking"
    /\ tpc = "none"
    /\ \E sample \in GraySamples : \E train \in RateCall(sample) :
          Forward_enter(train)
    /\ UNCHANGED trainVars

InitForward ==
    /\ alpha = Alpha
    /\ beta = Beta
    /\ threshold = DefaultThreshold
    /\ batch_size = BatchSize
    /\ mode \in {"static", "spiking"}
    /\ weights \in 1..MaxWeightId
    /\ spike_grad = FastSigmoidSurrogate
    /\ slope = Slope
    /\ net = Net_init(FastSigmoidSurrogate, Alpha, Beta, DefaultThreshold)
    /\ tpc = "none"
    /\ data_it = <<>>
    /\ sg_input = <<>>
    /\ FreshKernel

NextForward ==
    \/ Call
    \/ CallSpiking
    \/ ForwardStep
    \/ ForwardReturn

SpecForward == InitForward /\ [][NextForward]_vars

-----------------------------------------------------------------------------
(* The rate-coding cell on its own: one sample is turned into a spike      *)
(* train.                                                                  *)

\* spike_data, spike_targets = spikegen.rate(data_it, targets_it, ...)
EncodeCell ==
    /\ tpc = "rate_cell"
    /\ spike_data' \in RateCall(data_it)
    /\ tpc' = "rate_done"
    /\ UNCHANGED <<in_call, epoch, minibatch_counter, counter, remaining, data_it,
                   testdata_it, test_spike_data, loss_val, loss_step, grads,
                   loss_hist, test_loss_hist, ops>>
    /\ UNCHANGED netVars
    /\ UNCHANGED nbVars
    /\ UNCHANGED fwdVars
    /\ UNCHANGED err

InitRate ==
    /\ alpha = Alpha
    /\ beta = Beta
    /\ threshold = DefaultThreshold
    /\ batch_size = BatchSize
    /\ mode = "spiking"
    /\ weights = 1
    /\ net = NoNet
    /\ spike_grad = Unbound
    /\ slope = 0
    /\ tpc = "rate_cell"
    /\ sg_input = <<>>
    /\ FreshKernel
    /\ data_it \in RateSamples

NextRate == EncodeCell

SpecRate == InitRate /\ [][NextRate]_vars

-----------------------------------------------------------------------------
(* The surrogate's backward function on its own: autograd hands it the     *)
(* tensor mem - threshold saved by forward, here with two elements.        *)

\* The slopes tried: snn.slope = 50 and small ones.
SlopeChoices == (1..MaxSlope) \cup {Slope}

\* grad_input = FastSigmoidSurrogate.backward(ctx, grad_output), grad_output
\* being a tensor of ones.
BackwardCall ==
    /\ tpc = "surrogate"
    /\ sg_grad = NoValue
    /\ sg_grad' = [i \in DOMAIN sg_input |-> SurrogateBackward(slope, sg_input[i], 1)]
    /\ UNCHANGED <<spike_grad, slope, testVars, sg_input, cell>>
    /\ UNCHANGED <<netVars, fwdVars, err>>
    /\ UNCHANGED trainVars

InitSurrogate ==
    /\ alpha = Alpha
    /\ beta = Beta
    /\ threshold = DefaultThreshold
    /\ batch_size = BatchSize
    /\ mode = "spiking"
    /\ weights = 1
    /\ net = NoNet
    /\ spike_grad = FastSigmoidSurrogate
    /\ slope \in SlopeChoices
    /\ tpc = "surrogate"
    /\ data_it = <<>>
    /\ sg_input \in [1..2 -> (0 - MaxGradIn)..MaxGradIn]
    /\ FreshKernel

NextSurrogate == BackwardCall

SpecSurrogate == InitSurrogate /\ [][NextSurrogate]_vars

-----------------------------------------------------------------------------
(* The training cell: three epochs over train_loader, BPTT per minibatch.  *)

NumEpochs == 3         \* for epoch in range(3)
PrintEvery == 2        \* if counter % 50 == 0, scaled down like the sizes

\* Variant: backward is called before the gradients are zeroed.
TrainOrderBackwardFirst(m) ==
    (IF m = "spiking" THEN <<"encode">> ELSE <<>>)
    \o <<"forward", "loss_init", "loss_loop", "backward", "zero_grad", "clip",
         "opt_step", "loss_append", "test_fetch">>
    \o (IF m = "spiking" THEN <<"test_encode">> ELSE <<>>)
    \o <<"test_forward", "test_loss", "print_check", "count">>

\* Variant: the counters are incremented before the print-out.
TrainOrderCountFirst(m) ==
    (IF m = "spiking" THEN <<"encode">> ELSE <<>>)
    \o <<"forward", "loss_init", "loss_loop", "zero_grad", "backward", "clip",
         "opt_step", "loss_append", "test_fetch">>
    \o (IF m = "spiking" THEN <<"test_encode">> ELSE <<>>)
    \o <<"test_forward", "test_loss", "count", "print_check">>

\* The statements of one minibatch iteration, in program order.
TrainOrder(m) ==
    (IF m = "spiking" THEN <<"encode">> ELSE <<>>)
    \o <<"forward", "loss_init", "loss_loop", "zero_grad", "backward", "clip",
         "opt_step", "loss_append", "test_fetch">>
    \o (IF m = "spiking" THEN <<"test_encode">> ELSE <<>>)
    \o <<"test_forward", "test_loss", "print_check", "count">>

\* The statement after statement p; after the last one the loop fetches the
\* next minibatch.
After(m, p) ==
    LET ord == TrainOrder(m)
        i == CHOOSE k \in 1..Len(ord) : ord[k] = p
    IN  IF i = Len(ord) THEN "fetch" ELSE ord[i + 1]

\* The statement after the call of net(...) at call site p.  train_printer:
\* two calls of print_batch_accuracy, then back to the loop; test-set cell:
\* the else branch restores batch_size after its call.
AfterCall(m, p) ==
    IF p = "print_train" THEN "print_test"
    ELSE IF p = "print_test" THEN After(m, "print_check")
    ELSE IF p = "t_forward" THEN "t_count"
    ELSE IF p = "t_forward_else" THEN "t_restore"
    ELSE After(m, p)

CallSites == {"forward", "test_forward", "print_train", "print_test",
              "t_forward", "t_forward_else"}

\* What a call site hands to net(...).
CallArg(m, p) ==
    IF p \in {"forward", "print_train"}
    THEN (IF m = "static" THEN data_it ELSE spike_data)
    ELSE (IF m = "static" THEN testdata_it ELSE test_spike_data)

\* for epoch in range(3): minibatch_counter = 0; iter(train_loader)
EpochStart ==
    /\ tpc = "epoch"
    /\ epoch + 1 < NumEpochs
    /\ epoch' = epoch + 1
    /\ minibatch_counter' = 0
    /\ remaining' = 1..NumImages
    /\ tpc' = "fetch"
    /\ UNCHANGED <<in_call, counter, data_it, spike_data, testdata_it,
                   test_spike_data, loss_val, loss_step, grads, loss_hist,
                   test_loss_hist, ops>>
    /\ UNCHANGED <<netVars, fwdVars, err>>
    /\ UNCHANGED nbVars

\* The epoch loop is over.
TrainingDone ==
    /\ tpc = "epoch"
    /\ epoch + 1 = NumEpochs
    /\ tpc' = "done"
    /\ UNCHANGED <<in_call, epoch, minibatch_counter, counter, remaining, data_it,
                   spike_data, testdata_it, test_spike_data, loss_val, loss_step,
                   grads, loss_hist, test_loss_hist, ops>>
    /\ UNCHANGED <<netVars, fwdVars, err>>
    /\ UNCHANGED nbVars

\* for data_it, targets_it in train_batch: the next full minibatch.
FetchBatch ==
    /\ tpc = "fetch"
    /\ Cardinality(remaining) >= batch_size
    /\ \E b \in LoaderBatches(batch_size) :
          /\ Range(b) \subseteq remaining
          /\ data_it' = BatchData(b)
          /\ remaining' = remaining \ Range(b)
    /\ ops' = <<>>
    /\ tpc' = TrainOrder(mode)[1]
    /\ UNCHANGED <<in_call, epoch, minibatch_counter, counter, spike_data,
                   testdata_it, test_spike_data, loss_val, loss_step, grads,
                   loss_hist, test_loss_hist>>
    /\ UNCHANGED <<netVars, fwdVars, err>>
    /\ UNCHANGED nbVars

\* The iterator is exhausted (drop_last=True drops a short last batch).
EpochEnd ==
    /\ tpc = "fetch"
    /\ Cardinality(remaining) < batch_size
    /\ tpc' = "epoch"
    /\ UNCHANGED <<in_call, epoch, minibatch_counter, counter, remaining, data_it,
                   spike_data, testdata_it, test_spike_data, loss_val, loss_step,
                   grads, loss_hist, test_loss_hist, ops>>
    /\ UNCHANGED <<netVars, fwdVars, err>>
    /\ UNCHANGED nbVars

\* spike_data, spike_targets = spikegen.rate(data_it, targets_it, ...)
Encode ==
    /\ tpc = "encode"
    /\ spike_data' \in RateCall(data_it)
    /\ tpc' = After(mode, tpc)
    /\ UNCHANGED <<in_call, epoch, minibatch_counter, counter, remaining, data_it,
                   testdata_it, test_spike_data, loss_val, loss_step, grads,
                   loss_hist, test_loss_hist, ops>>
    /\ UNCHANGED <<netVars, fwdVars, err>>
    /\ UNCHANGED nbVars

\* net(...) is called from the training cell or from print_batch_accuracy.
NetCall ==
    /\ tpc \in CallSites
    /\ ~ in_call
    /\ Forward_enter(CallArg(mode, tpc))
    /\ in_call' = TRUE
    /\ ops' = Append(ops, "forward")
    /\ UNCHANGED <<tpc, epoch, minibatch_counter, counter, remaining, data_it,
                   spike_data, testdata_it, test_spike_data, loss_val, loss_step,
                   grads, loss_hist, test_loss_hist>>

\* The call has returned its histories to the caller.
NetReturn ==
    /\ tpc \in CallSites
    /\ in_call
    /\ pc = "returned"
    /\ in_call' = FALSE
    /\ tpc' = AfterCall(mode, tpc)
    /\ UNCHANGED <<epoch, minibatch_counter, counter, remaining, data_it,
                   spike_data, testdata_it, test_spike_data, loss_val, loss_step,
                   grads, loss_hist, test_loss_hist, ops>>
    /\ UNCHANGED <<netVars, fwdVars, err>>
    /\ UNCHANGED nbVars

\* log_p_y = log_softmax_fn(mem_rec); loss_val = torch.zeros(1)
LossInit ==
    /\ tpc = "loss_init"
    /\ loss_val' = <<>>
    /\ loss_step' = 0
    /\ tpc' = After(mode, tpc)
    /\ UNCHANGED <<in_call, epoch, minibatch_counter, counter, remaining, data_it,
                   spike_data, testdata_it, test_spike_data, grads, loss_hist,
                   test_loss_hist, ops>>
    /\ UNCHANGED <<netVars, fwdVars, err>>
    /\ UNCHANGED nbVars

\* for step in range(num_steps): loss_val += loss_fn(log_p_y[step], targets_it)
LossStep ==
    /\ tpc = "loss_loop"
    /\ loss_step < NumSteps
    /\ loss_val' = Append(loss_val, loss_step)
    /\ loss_step' = loss_step + 1
    /\ ops' = Append(ops, "loss")
    /\ tpc' = IF loss_step + 1 = NumSteps THEN After(mode, tpc) ELSE tpc
    /\ UNCHANGED <<in_call, epoch, minibatch_counter, counter, remaining, data_it,
                   spike_data, testdata_it, test_spike_data, grads, loss_hist,
                   test_loss_hist>>
    /\ UNCHANGED <<netVars, fwdVars, err>>
    /\ UNCHANGED nbVars

\* optimizer.zero_grad()
ZeroGrad ==
    /\ tpc = "zero_grad"
    /\ grads' = [state |-> "zero", of |-> <<>>]
    /\ ops' = Append(ops, "zero_grad")
    /\ tpc' = After(mode, tpc)
    /\ UNCHANGED <<in_call, epoch, minibatch_counter, counter, remaining, data_it,
                   spike_data, testdata_it, test_spike_data, loss_val, loss_step,
                   loss_hist, test_loss_hist>>
    /\ UNCHANGED <<netVars, fwdVars, err>>
    /\ UNCHANGED nbVars

\* loss_val.backward(retain_graph=True): the gradient of the loss as summed
\* so far is added to .grad.
Backward ==
    /\ tpc = "backward"
    /\ grads' = [state |-> "computed", of |-> grads.of \o loss_val]
    /\ ops' = Append(ops, "backward")
    /\ tpc' = After(mode, tpc)
    /\ UNCHANGED <<in_call, epoch, minibatch_counter, counter, remaining, data_it,
                   spike_data, testdata_it, test_spike_data, loss_val, loss_step,
                   loss_hist, test_loss_hist>>
    /\ UNCHANGED <<netVars, fwdVars, err>>
    /\ UNCHANGED nbVars

\* nn.utils.clip_grad_norm_(net.parameters(), 1)
Clip ==
    /\ tpc = "clip"
    /\ grads' = [grads EXCEPT !.state = "clipped"]
    /\ ops' = Append(ops, "clip")
    /\ tpc' = After(mode, tpc)
    /\ UNCHANGED <<in_call, epoch, minibatch_counter, counter, remaining, data_it,
                   spike_data, testdata_it, test_spike_data, loss_val, loss_step,
                   loss_hist, test_loss_hist>>
    /\ UNCHANGED <<netVars, fwdVars, err>>
    /\ UNCHANGED nbVars

\* optimizer.step(): the parameters of fc1 / fc2 take new values.
OptStep ==
    /\ tpc = "opt_step"
    /\ weights' \in 1..MaxWeightId
    /\ ops' = Append(ops, "step")
    /\ tpc' = After(mode, tpc)
    /\ UNCHANGED <<alpha, beta, threshold, batch_size, mode, net>>
    /\ UNCHANGED nbVars
    /\ UNCHANGED <<in_call, epoch, minibatch_counter, counter, remaining, data_it,
                   spike_data, testdata_it, test_spike_data, loss_val, loss_step,
                   grads, loss_hist, test_loss_hist>>
    /\ UNCHANGED <<fwdVars, err>>

\* loss_hist.append(loss_val.item()): the entry is the loss of this minibatch.
LossAppend ==
    /\ tpc = "loss_append"
    /\ loss_hist' = Append(loss_hist, [minibatch |-> counter, terms |-> loss_val])
    /\ tpc' = After(mode, tpc)
    /\ UNCHANGED <<in_call, epoch, minibatch_counter, counter, remaining, data_it,
                   spike_data, testdata_it, test_spike_data, loss_val, loss_step,
                   grads, test_loss_hist, ops>>
    /\ UNCHANGED <<netVars, fwdVars, err>>
    /\ UNCHANGED nbVars

\* test_data = itertools.cycle(test_loader); next(test_data): the first batch
\* of a fresh pass over the test set.
TestFetch ==
    /\ tpc = "test_fetch"
    /\ \E b \in LoaderBatches(batch_size) : testdata_it' = BatchData(b)
    /\ tpc' = After(mode, tpc)
    /\ UNCHANGED <<in_call, epoch, minibatch_counter, counter, remaining, data_it,
                   spike_data, test_spike_data, loss_val, loss_step, grads,
                   loss_hist, test_loss_hist, ops>>
    /\ UNCHANGED <<netVars, fwdVars, err>>
    /\ UNCHANGED nbVars

\* test_spike_data, test_spike_targets = spikegen.rate(testdata_it, ...)
TestEncode ==
    /\ tpc = "test_encode"
    /\ test_spike_data' \in RateCall(testdata_it)
    /\ tpc' = After(mode, tpc)
    /\ UNCHANGED <<in_call, epoch, minibatch_counter, counter, remaining, data_it,
                   spike_data, testdata_it, loss_val, loss_step, grads, loss_hist,
                   test_loss_hist, ops>>
    /\ UNCHANGED <<netVars, fwdVars, err>>
    /\ UNCHANGED nbVars

\* test_loss_hist.append(loss_val_test.item())
TestLoss ==
    /\ tpc = "test_loss"
    /\ test_loss_hist' = Append(test_loss_hist, [minibatch |-> counter])
    /\ tpc' = After(mode, tpc)
    /\ UNCHANGED <<in_call, epoch, minibatch_counter, counter, remaining, data_it,
                   spike_data, testdata_it, test_spike_data, loss_val, loss_step,
                   grads, loss_hist, ops>>
    /\ UNCHANGED <<netVars, fwdVars, err>>
    /\ UNCHANGED nbVars

\* if counter % 50 == 0: train_printer()
PrintCheck ==
    /\ tpc = "print_check"
    /\ tpc' = IF counter % PrintEvery = 0 THEN "print_train" ELSE After(mode, tpc)
    /\ UNCHANGED <<in_call, epoch, minibatch_counter, counter, remaining, data_it,
                   spike_data, testdata_it, test_spike_data, loss_val, loss_step,
                   grads, loss_hist, test_loss_hist, ops>>
    /\ UNCHANGED <<netVars, fwdVars, err>>
    /\ UNCHANGED nbVars

\* minibatch_counter += 1; counter += 1
Count ==
    /\ tpc = "count"
    /\ minibatch_counter' = minibatch_counter + 1
    /\ counter' = counter + 1
    /\ tpc' = After(mode, tpc)
    /\ UNCHANGED <<in_call, epoch, remaining, data_it, spike_data, testdata_it,
                   test_spike_data, loss_val, loss_step, grads, loss_hist,
                   test_loss_hist, ops>>
    /\ UNCHANGED <<netVars, fwdVars, err>>
    /\ UNCHANGED nbVars

\* The network has been constructed; the training cell is about to run, on
\* the static network or on the spiking one.
InitTrain ==
    /\ alpha = Alpha
    /\ beta = Beta
    /\ threshold = DefaultThreshold
    /\ batch_size = BatchSize
    /\ mode \in {"static", "spiking"}
    /\ weights \in 1..MaxWeightId
    /\ net = Net_init(FastSigmoidSurrogate, Alpha, Beta, DefaultThreshold)
    /\ spike_grad = FastSigmoidSurrogate
    /\ slope = Slope
    /\ tpc = "epoch"
    /\ data_it = <<>>
    /\ sg_input = <<>>
    /\ FreshKernel

NextTrain ==
    \/ EpochStart
    \/ TrainingDone
    \/ FetchBatch
    \/ EpochEnd
    \/ Encode
    \/ NetCall
    \/ ForwardStep
    \/ ForwardReturn
    \/ NetReturn
    \/ LossInit
    \/ LossStep
    \/ ZeroGrad
    \/ Backward
    \/ Clip
    \/ OptStep
    \/ LossAppend
    \/ TestFetch
    \/ TestEncode
    \/ TestLoss
    \/ PrintCheck
    \/ Count

SpecTrain == InitTrain /\ [][NextTrain]_vars

-----------------------------------------------------------------------------
(* The test-set cell: one pass over the whole test set, the last minibatch *)
(* being short when batch_size does not divide the number of images.       *)

Min(a, b) == IF a < b THEN a ELSE b

\* total = 0; correct = 0; test_loader = DataLoader(mnist_test,
\* batch_size=batch_size, shuffle=True, drop_last=False); net.eval()
TestCellStart ==
    /\ tpc = "t_start"
    /\ net # NoNet
    /\ total' = 0
    /\ test_loader' = batch_size
    /\ remaining' = 1..NumImages
    /\ tpc' = "t_fetch"
    /\ UNCHANGED <<in_call, epoch, minibatch_counter, counter, data_it, spike_data,
                   testdata_it, test_spike_data, loss_val, loss_step, grads,
                   loss_hist, test_loss_hist, ops>>
    /\ UNCHANGED <<spike_grad, slope, temp_bs, sg_input, sg_grad, cell>>
    /\ UNCHANGED <<netVars, fwdVars, err>>

\* for data in test_loader: images, labels = data -- the next minibatch, of
\* the loader's batch size or, at the end, of what is left.
TestNext ==
    /\ tpc = "t_fetch"
    /\ remaining # {}
    /\ \E b \in LoaderBatches(Min(test_loader, Cardinality(remaining))) :
          /\ Range(b) \subseteq remaining
          /\ testdata_it' = BatchData(b)
          /\ remaining' = remaining \ Range(b)
    /\ tpc' = "t_prepare"
    /\ UNCHANGED <<in_call, epoch, minibatch_counter, counter, data_it, spike_data,
                   test_spike_data, loss_val, loss_step, grads, loss_hist,
                   test_loss_hist, ops>>
    /\ UNCHANGED <<netVars, fwdVars, err>>
    /\ UNCHANGED nbVars

\* The loader is exhausted: the two print statements end the cell.
TestLoopEnd ==
    /\ tpc = "t_fetch"
    /\ remaining = {}
    /\ tpc' = "t_done"
    /\ UNCHANGED <<in_call, epoch, minibatch_counter, counter, remaining, data_it,
                   spike_data, testdata_it, test_spike_data, loss_val, loss_step,
                   grads, loss_hist, test_loss_hist, ops>>
    /\ UNCHANGED <<netVars, fwdVars, err>>
    /\ UNCHANGED nbVars

\* if images.size()[0] == batch_size: ... else: temp_bs = batch_size;
\* batch_size = images.size()[0]
TestPrepare ==
    /\ tpc = "t_prepare"
    /\ IF Len(testdata_it) = batch_size
       THEN /\ tpc' = IF mode = "spiking" THEN "t_encode" ELSE "t_forward"
            /\ UNCHANGED <<batch_size, temp_bs>>
       ELSE /\ temp_bs' = batch_size
            /\ batch_size' = Len(testdata_it)
            /\ tpc' = IF mode = "spiking" THEN "t_encode_else" ELSE "t_forward_else"
    /\ UNCHANGED <<in_call, epoch, minibatch_counter, counter, remaining, data_it,
                   spike_data, testdata_it, test_spike_data, loss_val, loss_step,
                   grads, loss_hist, test_loss_hist, ops>>
    /\ UNCHANGED <<alpha, beta, threshold, mode, weights, net>>
    /\ UNCHANGED <<spike_grad, slope, total, test_loader, sg_input, sg_grad, cell>>
    /\ UNCHANGED <<fwdVars, err>>

\* spike_test, spike_targets = spikegen.rate(images, labels, ...)
TestLoopEncode ==
    /\ tpc \in {"t_encode", "t_encode_else"}
    /\ test_spike_data' \in RateCall(testdata_it)
    /\ tpc' = IF tpc = "t_encode" THEN "t_forward" ELSE "t_forward_else"
    /\ UNCHANGED <<in_call, epoch, minibatch_counter, counter, remaining, data_it,
                   spike_data, testdata_it, loss_val, loss_step, grads, loss_hist,
                   test_loss_hist, ops>>
    /\ UNCHANGED <<netVars, fwdVars, err>>
    /\ UNCHANGED nbVars

\* Variant: the else branch does not put the saved value back.
TestRestoreSkip ==
    /\ tpc = "t_restore"
    /\ tpc' = "t_count"
    /\ UNCHANGED <<in_call, epoch, minibatch_counter, counter, remaining, data_it,
                   spike_data, testdata_it, test_spike_data, loss_val, loss_step,
                   grads, loss_hist, test_loss_hist, ops>>
    /\ UNCHANGED <<netVars, fwdVars, err>>
    /\ UNCHANGED nbVars

\* batch_size = temp_bs
TestRestore ==
    /\ tpc = "t_restore"
    /\ batch_size' = temp_bs
    /\ tpc' = "t_count"
    /\ UNCHANGED <<in_call, epoch, minibatch_counter, counter, remaining, data_it,
                   spike_data, testdata_it, test_spike_data, loss_val, loss_step,
                   grads, loss_hist, test_loss_hist, ops>>
    /\ UNCHANGED <<alpha, beta, threshold, mode, weights, net>>
    /\ UNCHANGED <<fwdVars, err>>
    /\ UNCHANGED nbVars

\* _, predicted = outputs.sum(dim=0).max(1); total += labels.size(0)
TestCount ==
    /\ tpc = "t_count"
    /\ total' = total + Len(testdata_it)
    /\ tpc' = "t_fetch"
    /\ UNCHANGED <<in_call, epoch, minibatch_counter, counter, remaining, data_it,
                   spike_data, testdata_it, test_spike_data, loss_val, loss_step,
                   grads, loss_hist, test_loss_hist, ops>>
    /\ UNCHANGED <<spike_grad, slope, temp_bs, test_loader, sg_input, sg_grad, cell>>
    /\ UNCHANGED <<netVars, fwdVars, err>>

\* The network has been constructed (and trained); the test-set cell is
\* about to run, on the static network or on the spiking one.
InitTest ==
    /\ alpha = Alpha
    /\ beta = Beta
    /\ threshold = DefaultThreshold
    /\ batch_size = BatchSize
    /\ mode \in {"static", "spiking"}
    /\ weights \in 1..MaxWeightId
    /\ net = Net_init(FastSigmoidSurrogate, Alpha, Beta, DefaultThreshold)
    /\ spike_grad = FastSigmoidSurrogate
    /\ slope = Slope
    /\ tpc = "t_start"
    /\ data_it = <<>>
    /\ sg_input = <<>>
    /\ FreshKernel

NextTest ==
    \/ TestCellStart
    \/ TestNext
    \/ TestLoopEnd
    \/ TestPrepare
    \/ TestLoopEncode
    \/ NetCall
    \/ ForwardStep
    \/ ForwardReturn
    \/ NetReturn
    \/ TestRestore
    \/ TestCount

SpecTest == InitTest /\ [][NextTest]_vars

-----------------------------------------------------------------------------
(* The notebook run top to bottom, every cell once: the cells that bind    *)
(* the surrogate, build a network, train it and evaluate it.  A cell that  *)
(* raises stops; the next cell is run all the same.                        *)

Cells == <<"surrogate", "net_static", "train", "test",
           "net_spiking", "train", "test">>

NetCells == {"net_static", "net_spiking"}

\* The cell that runs next, "end" after the last one.
NextCell == IF cell < Len(Cells) THEN Cells[cell + 1] ELSE "end"

\* The cell under "Define Network" whose lines are all commented out
\* (# spike_grad = surrogate.FastSigmoid.apply, # snn.slope = 50).
SurrogateCell ==
    /\ NextCell = "surrogate"
    /\ tpc = "none"
    /\ cell' = cell + 1
    /\ UNCHANGED <<spike_grad, slope, testVars, sg_input, sg_grad>>
    /\ UNCHANGED <<netVars, fwdVars, err>>
    /\ UNCHANGED trainVars

\* A cell that defines class Net and ends with net = Net(); the second one
\* starts with spike_grad = snn.FastSigmoidSurrogate.apply; snn.slope = 50.
NetCell ==
    /\ NextCell \in NetCells
    /\ tpc = "none"
    /\ spike_grad' = IF NextCell = "net_spiking" THEN FastSigmoidSurrogate
                     ELSE spike_grad
    /\ slope' = IF NextCell = "net_spiking" THEN Slope ELSE slope
    /\ mode' = IF NextCell = "net_spiking" THEN "spiking" ELSE "static"
    /\ LET n == Net_init(spike_grad', alpha, beta, threshold)
       IN  IF n.err # "none"
           THEN /\ err' = n.err
                /\ UNCHANGED <<net, weights>>
           ELSE /\ net' = n
                /\ weights' \in 1..MaxWeightId
                /\ err' = "none"
    /\ cell' = cell + 1
    /\ UNCHANGED <<alpha, beta, threshold, batch_size>>
    /\ UNCHANGED <<testVars, sg_input, sg_grad>>
    /\ UNCHANGED fwdVars
    /\ UNCHANGED trainVars

\* The head of a training cell: loss_hist = []; test_loss_hist = [];
\* counter = 0, then the epoch loop.
TrainCellStart ==
    /\ NextCell = "train"
    /\ tpc = "none"
    /\ tpc' = "epoch"
    /\ loss_hist' = <<>>
    /\ test_loss_hist' = <<>>
    /\ counter' = 0
    /\ epoch' = 0 - 1
    /\ UNCHANGED <<in_call, minibatch_counter, remaining, data_it, spike_data,
                   testdata_it, test_spike_data, loss_val, loss_step, grads, ops>>
    /\ UNCHANGED <<netVars, fwdVars, err>>
    /\ UNCHANGED nbVars

\* The cell reaches a call of net(...) while the name net is not bound:
\* NameError ends the cell.
CellFail ==
    /\ NextCell = "train"
    /\ tpc \in CallSites
    /\ ~ in_call
    /\ net = NoNet
    /\ err' = "NameError"
    /\ tpc' = "none"
    /\ cell' = cell + 1
    /\ UNCHANGED <<in_call, epoch, minibatch_counter, counter, remaining, data_it,
                   spike_data, testdata_it, test_spike_data, loss_val, loss_step,
                   grads, loss_hist, test_loss_hist, ops>>
    /\ UNCHANGED <<spike_grad, slope, testVars, sg_input, sg_grad>>
    /\ UNCHANGED <<netVars, fwdVars>>

\* The test-set cell is entered.
TestCellEnter ==
    /\ NextCell = "test"
    /\ tpc = "none"
    /\ tpc' = "t_start"
    /\ UNCHANGED <<in_call, epoch, minibatch_counter, counter, remaining, data_it,
                   spike_data, testdata_it, test_spike_data, loss_val, loss_step,
                   grads, loss_hist, test_loss_hist, ops>>
    /\ UNCHANGED <<netVars, fwdVars, err>>
    /\ UNCHANGED nbVars

\* The test-set cell reaches net.eval() while the name net is not bound:
\* NameError ends the cell, after total and test_loader have been assigned.
TestCellFail ==
    /\ NextCell = "test"
    /\ tpc = "t_start"
    /\ net = NoNet
    /\ total' = 0
    /\ test_loader' = batch_size
    /\ err' = "NameError"
    /\ tpc' = "none"
    /\ cell' = cell + 1
    /\ UNCHANGED <<in_call, epoch, minibatch_counter, counter, remaining, data_it,
                   spike_data, testdata_it, test_spike_data, loss_val, loss_step,
                   grads, loss_hist, test_loss_hist, ops>>
    /\ UNCHANGED <<spike_grad, slope, temp_bs, sg_input, sg_grad>>
    /\ UNCHANGED <<netVars, fwdVars>>

\* The training or test-set cell has run to its end.
CellEnd ==
    /\ \/ NextCell = "train" /\ tpc = "done"
       \/ NextCell = "test" /\ tpc = "t_done"
    /\ tpc' = "none"
    /\ cell' = cell + 1
    /\ UNCHANGED <<in_call, epoch, minibatch_counter, counter, remaining, data_it,
                   spike_data, testdata_it, test_spike_data, loss_val, loss_step,
                   grads, loss_hist, test_loss_hist, ops>>
    /\ UNCHANGED <<spike_grad, slope, testVars, sg_input, sg_grad>>
    /\ UNCHANGED <<netVars, fwdVars, err>>

\* The kernel after the import, parameter and data cells.
InitNotebook ==
    /\ alpha = Alpha
    /\ beta = Beta
    /\ threshold = DefaultThreshold
    /\ batch_size = BatchSize
    /\ mode = "static"
    /\ weights = 1
    /\ net = NoNet
    /\ spike_grad = Unbound
    /\ slope = 0
    /\ tpc = "none"
    /\ data_it = <<>>
    /\ sg_input = <<>>
    /\ FreshKernel

NextNotebook ==
    \/ SurrogateCell
    \/ NetCell
    \/ TrainCellStart
    \/ CellFail
    \/ TestCellEnter
    \/ TestCellFail
    \/ CellEnd
    \/ NextTrain
    \/ TestCellStart
    \/ TestNext
    \/ TestLoopEnd
    \/ TestPrepare
    \/ TestLoopEncode
    \/ TestRestore
    \/ TestCount

SpecNotebook == InitNotebook /\ [][NextNotebook]_vars

-----------------------------------------------------------------------------
(* Properties of Net.forward and of the neuron layers, checked under Spec. *)

Valid(a, b, th) == a > 0 /\ a < Scale /\ b > 0 /\ b < Scale /\ th > 0

Heaviside(v) == IF v >= 0 THEN Scale ELSE 0

\* The rule syn' = alpha syn + I, mem' = beta mem + syn' - spk threshold,
\* spk' = H(mem' - threshold) relates the layer states s (before) and sN
\* (after) for the input current cur, spk being the spike held before.
StepRule(lif, cur, s, sN) ==
    \A r \in DOMAIN cur : \A j \in DOMAIN cur[r] :
        /\ sN.syn[r][j] = Mul(lif.alpha, s.syn[r][j]) + cur[r][j]
        /\ sN.mem[r][j] = Mul(lif.beta, s.mem[r][j]) + sN.syn[r][j]
                              - Mul(s.spk[r][j], lif.threshold)
        /\ sN.spk[r][j] = Heaviside(sN.mem[r][j] - lif.threshold)

\* C1: a forward call that returns hands back two histories of exactly
\* num_steps entries each, and iteration t (0-based) appends the spk2 / mem2
\* it has just produced as entry t, leaving the earlier entries alone.
C1_HistoryPerStep ==
    /\ [](pc = "returned" =>
            /\ ret = <<spk2_rec, mem2_rec>>
            /\ Len(ret[1]) = NumSteps
            /\ Len(ret[2]) = NumSteps)
    /\ [](Len(spk2_rec) = step /\ Len(mem2_rec) = step)
    /\ [][step' = step + 1 =>
            /\ spk2_rec' = Append(spk2_rec, spk2')
            /\ mem2_rec' = Append(mem2_rec, mem2')]_vars

C1_Witness ==
    /\ pc = "returned"
    /\ Len(ret[1]) = NumSteps
    /\ ret[1][1] # ret[1][NumSteps]
    /\ ret[2][1] # ret[2][2]

\* C2: every iteration advances both layers by the rule above, the spk of
\* the reset term being the spike the layer emitted in the previous
\* iteration (zero in the first), although only (cur, syn, mem) is passed.
C2_StepRule ==
    /\ [](pc = "loop" /\ step = 0 =>
            /\ spk1 = Zeros(batch_size, NumHidden)
            /\ spk2 = Zeros(batch_size, NumOutputs))
    /\ [][step' = step + 1 =>
            /\ StepRule(net.lif1, cur1', [spk |-> spk1, syn |-> syn1, mem |-> mem1],
                        [spk |-> spk1', syn |-> syn1', mem |-> mem1'])
            /\ StepRule(net.lif2, cur2', [spk |-> spk2, syn |-> syn2, mem |-> mem2],
                        [spk |-> spk2', syn |-> syn2', mem |-> mem2'])]_vars

\* A neuron that spiked in the previous iteration has been stepped again.
C2_Witness ==
    /\ pc = "loop"
    /\ step >= 2
    /\ \E r \in DOMAIN first_spk1 : \E j \in DOMAIN first_spk1[r] :
          /\ first_spk1[r][j] # 0
          /\ first_spk1[r][j] < step
          /\ syn1[r][j] # mem1[r][j]

\* C3: the spike nonlinearity is a hard threshold with inclusive boundary:
\* in every neuron state spk is 0 or 1, it is 1 exactly when
\* mem - threshold >= 0, mem = threshold included.
C3_HardThreshold ==
    pc \in {"loop", "returned"} =>
        /\ \A r \in DOMAIN spk1 : \A j \in DOMAIN spk1[r] :
              /\ spk1[r][j] \in {0, Scale}
              /\ mem1[r][j] - net.lif1.threshold < 0 => spk1[r][j] = 0
              /\ mem1[r][j] - net.lif1.threshold >= 0 => spk1[r][j] = Scale
        /\ \A r \in DOMAIN spk2 : \A j \in DOMAIN spk2[r] :
              /\ spk2[r][j] \in {0, Scale}
              /\ mem2[r][j] - net.lif2.threshold < 0 => spk2[r][j] = 0
              /\ mem2[r][j] - net.lif2.threshold >= 0 => spk2[r][j] = Scale

\* The membrane sits exactly on the threshold, and the neuron has fired.
C3_Witness ==
    /\ pc = "loop"
    /\ \E r \in DOMAIN spk1 : \E j \in DOMAIN spk1[r] :
          mem1[r][j] = net.lif1.threshold /\ spk1[r][j] = Scale

\* C4: zero is a fixed point.  A layer-1 neuron whose input current is zero
\* in every iteration keeps syn = mem = 0 and never spikes.
C4_ZeroFixedPoint ==
    (pc \in {"loop", "returned"} /\ Len(x) = batch_size) =>
        \A r \in 1..batch_size : \A j \in 1..NumHidden :
            fc1(weights, x)[r][j] = 0 =>
                /\ syn1[r][j] = 0
                /\ mem1[r][j] = 0
                /\ spk1[r][j] = 0
                /\ first_spk1[r][j] = 0

\* All iterations are done: one row of the batch drove a neuron with zero
\* current, another row made a neuron spike.
C4_Witness ==
    /\ pc = "returned"
    /\ \E r \in 1..batch_size : \E j \in 1..NumHidden :
          fc1(weights, x)[r][j] = 0 /\ mem1[r][j] = 0
    /\ \E r \in 1..batch_size : \E j \in 1..NumHidden : first_spk1[r][j] # 0

\* C5: under a constant positive input current, mem of a layer-1 neuron does
\* not decrease from one iteration to the next as long as the neuron has not
\* spiked before; and the iteration after a spike yields a mem exactly
\* threshold below the same update without the reset term.
C5_MonotoneThenReset ==
    [][(step' = step + 1 /\ mode = "static") =>
         \A r \in DOMAIN cur1' : \A j \in DOMAIN cur1'[r] :
            (cur1'[r][j] > 0 /\ cur1'[r][j] = fc1(weights, x)[r][j]) =>
                /\ first_spk1[r][j] = 0 => mem1'[r][j] >= mem1[r][j]
                /\ spk1[r][j] = Scale =>
                      mem1'[r][j] =
                          (Mul(net.lif1.beta, mem1[r][j])
                           + Mul(net.lif1.alpha, syn1[r][j]) + cur1'[r][j])
                          - net.lif1.threshold]_vars

\* A neuron under positive current spiked first in iteration 2 or later and
\* has been stepped after that spike.
C5_Witness ==
    /\ pc = "loop"
    /\ \E r \in DOMAIN first_spk1 : \E j \in DOMAIN first_spk1[r] :
          /\ first_spk1[r][j] >= 2
          /\ first_spk1[r][j] < step
          /\ cur1[r][j] > 0

\* C6: with alpha or beta outside (0,1), or threshold <= 0, construction
\* fails with ConfigError; no network exists and forward never runs; a
\* network that exists holds the parameters it was given, unclamped.
C6_ConfigError ==
    /\ [](~ Valid(alpha, beta, threshold) =>
            /\ net = NoNet
            /\ pc = "idle"
            /\ err \in {"none", "ConfigError"})
    /\ [](net # NoNet =>
            /\ net.lif1 = [err |-> "none", alpha |-> alpha, beta |-> beta,
                            threshold |-> threshold]
            /\ net.lif2 = net.lif1)
    /\ [][~ Valid(alpha, beta, threshold) => err' = "ConfigError"]_vars

C6_Witness ==
    /\ ~ Valid(alpha, beta, threshold)
    /\ alpha = Scale
    /\ err = "ConfigError"
    /\ net = NoNet

\* C7: when the input current's shape differs from the stored state's shape
\* the iteration raises ShapeError and the call ends without returning;
\* such a call never has a history, partial or complete.
C7_ShapeError ==
    /\ [][(pc = "loop" /\ step < NumSteps
            /\ Shape(fc1(weights, StepInput(mode, x, step))) # Shape(syn1)) =>
              /\ pc' = "aborted"
              /\ err' = "ShapeError"
              /\ ret' = NoValue]_vars
    /\ [](err = "ShapeError" =>
            /\ pc = "aborted"
            /\ ret = NoValue
            /\ spk2_rec = <<>>
            /\ mem2_rec = <<>>)
    /\ [](pc = "returned" =>
            Shape(fc1(weights, StepInput(mode, x, 0))) = <<batch_size, NumHidden>>)

C7_Witness ==
    /\ pc = "aborted"
    /\ err = "ShapeError"
    /\ Len(x) # batch_size
    /\ first # <<>>

\* C8: neuron state does not persist across forward calls: a call on the
\* input of the first call that returned gives the histories of that first
\* call, whatever calls were made in between, and every call starts from
\* zero state.
C8_NoPersistence ==
    /\ (pc = "returned" /\ x = first[1]) => ret = first[2]
    /\ (pc = "loop" /\ step = 0) =>
          /\ syn1 = Zeros(batch_size, NumHidden)
          /\ mem1 = Zeros(batch_size, NumHidden)
          /\ spk1 = Zeros(batch_size, NumHidden)
          /\ syn2 = Zeros(batch_size, NumOutputs)
          /\ mem2 = Zeros(batch_size, NumOutputs)
          /\ spk2 = Zeros(batch_size, NumOutputs)

\* The input of the first call is run again after a call on another input,
\* and the run has spikes in its history.
C8_Witness ==
    /\ pc = "returned"
    /\ x = first[1]
    /\ first[3]
    /\ \E t \in 1..NumSteps : \E r \in 1..batch_size : ret[1][t][r][1] = Scale

-----------------------------------------------------------------------------
(* Properties of the rate encoder, checked under SpecRate.                 *)

\* C9: with gain = 1 and offset = 0 the spike train has exactly num_steps
\* slices of the sample's shape; whatever the draws, an element of value 1
\* is 1 in every slice and an element of value 0 is 0 in every slice.
C9_RateDeterministicEnds ==
    tpc = "rate_done" =>
        /\ Len(spike_data) = NumSteps
        /\ \A t \in 1..Len(spike_data) :
              /\ Shape(spike_data[t]) = Shape(data_it)
              /\ \A r \in DOMAIN data_it : \A j \in DOMAIN data_it[r] :
                    /\ data_it[r][j] = Scale => spike_data[t][r][j] = Scale
                    /\ data_it[r][j] = 0 => spike_data[t][r][j] = 0

\* A sample with a 1, a 0 and a gray pixel has been encoded; the gray pixel
\* fired in some slices and not in others.
C9_Witness ==
    /\ tpc = "rate_done"
    /\ \E r \in DOMAIN data_it : \E j \in DOMAIN data_it[r] : data_it[r][j] = Scale
    /\ \E r \in DOMAIN data_it : \E j \in DOMAIN data_it[r] : data_it[r][j] = 0
    /\ \E r \in DOMAIN data_it : \E j \in DOMAIN data_it[r] :
          /\ data_it[r][j] = Scale \div 2
          /\ spike_data[1][r][j] # spike_data[NumSteps][r][j]

-----------------------------------------------------------------------------
(* Properties of the training cell, checked under SpecTrain.               *)

\* The operations of a minibatch up to the weight update, in order.
ExpectedOps ==
    <<"forward">> \o [i \in 1..NumSteps |-> "loss"]
    \o <<"zero_grad", "backward", "clip", "step">>

\* C10: in every minibatch the operations run in the order forward, one
\* loss term per step index 0..num_steps-1, zero_grad, one backward on the
\* complete sum, clipping, one optimizer step; after that the minibatch only
\* makes further forward calls (test set, print-out).
C10_TrainOrder ==
    /\ \A i \in 1..Len(ops) :
          ops[i] = IF i <= Len(ExpectedOps) THEN ExpectedOps[i] ELSE "forward"
    /\ tpc \in {"loss_loop", "zero_grad", "backward", "clip", "opt_step"} =>
          loss_val = [i \in 1..loss_step |-> i - 1]
    /\ grads.state \in {"computed", "clipped"} =>
          grads.of = [i \in 1..NumSteps |-> i - 1]
    /\ tpc = "opt_step" => grads.state = "clipped"

\* The optimizer has stepped in the second minibatch or later, after all of
\* that minibatch's operations.
C10_Witness ==
    /\ counter >= 1
    /\ tpc = "loss_append"
    /\ ops = ExpectedOps
    /\ grads = [state |-> "clipped", of |-> [i \in 1..NumSteps |-> i - 1]]

-----------------------------------------------------------------------------
(* Properties of the unroll, checked under SpecForward.                    *)

\* C11: the static network hands the same x to fc1 in every iteration; the
\* spiking network hands slice x[t] to fc1 in iteration t, so a call that
\* returns has consumed the num_steps slices once each, in increasing order.
C11_StepInput ==
    /\ Len(fc1_in) = step
    /\ \A t \in 1..Len(fc1_in) :
          fc1_in[t] = IF mode = "static" THEN x ELSE x[t]
    /\ pc = "returned" =>
          IF mode = "static" THEN fc1_in = [t \in 1..NumSteps |-> x]
          ELSE fc1_in = x

\* A spike train whose slices differ, and which read backwards is another
\* train, has been run to the end.
C11_Witness ==
    /\ pc = "returned"
    /\ mode = "spiking"
    /\ Len(fc1_in) = NumSteps
    /\ x[1] # x[2]
    /\ x[1] # x[NumSteps]

\* C14: within an iteration the layers run in order: layer 1 is advanced
\* on this iteration's fc1 output, layer 2's current is fc2 of the spike
\* layer 1 has emitted in this same iteration, layer 2 is advanced on that
\* current, and the spk2 / mem2 so obtained are what the histories receive.
C14_LayerOrder ==
    [][step' = step + 1 =>
         /\ cur1' = fc1(weights, fc1_in'[step + 1])
         /\ StepRule(net.lif1, cur1', [spk |-> spk1, syn |-> syn1, mem |-> mem1],
                     [spk |-> spk1', syn |-> syn1', mem |-> mem1'])
         /\ cur2' = fc2(weights, spk1')
         /\ StepRule(net.lif2, cur2', [spk |-> spk2, syn |-> syn2, mem |-> mem2],
                     [spk |-> spk2', syn |-> syn2', mem |-> mem2'])
         /\ spk2_rec'[step + 1] = spk2'
         /\ mem2_rec'[step + 1] = mem2']_vars

\* A layer-1 neuron has spiked for the first time in the iteration just
\* done, and layer 2's current of that iteration already shows the spike.
C14_Witness ==
    /\ pc = "loop"
    /\ step >= 2
    /\ \E r \in DOMAIN first_spk1 : \E j \in DOMAIN first_spk1[r] :
          first_spk1[r][j] = step
    /\ cur2 = fc2(weights, spk1)
    /\ cur2 # fc2(weights, Zeros(batch_size, NumHidden))
    /\ spk2_rec[step] = spk2

-----------------------------------------------------------------------------
(* Properties of the surrogate gradient, checked under SpecSurrogate.      *)

\* C12: for slope > 0 the backward value slope / (1 + slope |x|)^2 is
\* strictly positive at every x, strictly smaller at the element of larger
\* |x|, the same at x and -x, and exactly slope at x = 0.
C12_SurrogateBackward ==
    sg_grad # NoValue =>
        /\ \A i \in DOMAIN sg_grad : sg_grad[i].num > 0 /\ sg_grad[i].den > 0
        /\ \A i, j \in DOMAIN sg_grad :
              /\ Abs(sg_input[i]) < Abs(sg_input[j]) => FracLess(sg_grad[j], sg_grad[i])
              /\ sg_input[i] = 0 - sg_input[j] => FracEq(sg_grad[i], sg_grad[j])
        /\ \A i \in DOMAIN sg_grad :
              sg_input[i] = 0 => FracEq(sg_grad[i], Frac(slope, 1))

\* With the notebook's slope the backward has been taken at x = 0 and at a
\* negative x.
C12_Witness ==
    /\ sg_grad # NoValue
    /\ slope = Slope
    /\ sg_input[1] = 0
    /\ sg_input[2] < 0
    /\ FracLess(sg_grad[2], sg_grad[1])

\* C16: at the end of every minibatch iteration loss_hist and
\* test_loss_hist both have counter entries, one per minibatch run so far;
\* while train_printer runs, counter indexes the last entry of both lists,
\* the one this minibatch appended; counter is never reset, and
\* minibatch_counter is 0 whenever an epoch starts.
C16_HistoryIndex ==
    /\ [](tpc \in {"fetch", "epoch", "done"} =>
            /\ Len(loss_hist) = counter
            /\ Len(test_loss_hist) = counter)
    /\ [](/\ \A i \in DOMAIN loss_hist : loss_hist[i].minibatch = i - 1
          /\ \A i \in DOMAIN test_loss_hist : test_loss_hist[i].minibatch = i - 1)
    /\ [](tpc \in {"print_train", "print_test"} =>
            /\ counter + 1 = Len(loss_hist)
            /\ counter + 1 = Len(test_loss_hist)
            /\ loss_hist[counter + 1].minibatch = counter
            /\ test_loss_hist[counter + 1].minibatch = counter)
    /\ [][counter' >= counter]_vars
    /\ [][epoch' # epoch => minibatch_counter' = 0]_vars
    /\ [][tpc' = "fetch" /\ tpc # "epoch" =>
            /\ Len(loss_hist') = Len(loss_hist)
            /\ counter' = Len(loss_hist')]_vars

\* train_printer runs in a minibatch of a later epoch, the counters of
\* earlier minibatches having been kept.
C16_Witness ==
    /\ tpc = "print_test"
    /\ in_call
    /\ epoch >= 1
    /\ counter >= 1
    /\ minibatch_counter < counter
    /\ Len(loss_hist) = counter + 1

-----------------------------------------------------------------------------
(* Properties of the run of the notebook, checked under SpecNotebook.      *)

\* C13: in the top-to-bottom run the surrogate and its slope are bound
\* before any network is built: once a cell that builds a network has run,
\* spike_grad and snn.slope are bound and the network exists, the first
\* (static) network included.
C13_SurrogateBoundFirst ==
    \A c \in 1..cell :
        Cells[c] \in NetCells =>
            /\ spike_grad # Unbound
            /\ slope = Slope
            /\ net # NoNet

-----------------------------------------------------------------------------
(* Properties of the test-set cell, checked under SpecTest.                *)

\* C15: in the test-set loop every forward pass, the one on a short last
\* minibatch included, runs with batch_size equal to the minibatch's first
\* dimension, so the zero state has the input's batch dimension and the
\* pass is not aborted; once a minibatch has been processed, and after the
\* loop, batch_size is what it was before the loop.
C15_TestBatchSize ==
    /\ (tpc \in {"t_forward", "t_forward_else"} /\ in_call) =>
          /\ batch_size = Len(testdata_it)
          /\ Len(StepInput(mode, x, 0)) = batch_size
          /\ Shape(syn1) = <<Len(testdata_it), NumHidden>>
          /\ Shape(mem2) = <<Len(testdata_it), NumOutputs>>
          /\ pc \in {"loop", "returned"}
    /\ tpc \in {"t_count", "t_fetch", "t_done"} => batch_size = test_loader
    /\ tpc = "t_done" => batch_size = BatchSize /\ total = NumImages

\* The loop is over; its last minibatch was short, went through the else
\* branch and was run to the end.
C15_Witness ==
    /\ tpc = "t_done"
    /\ Len(testdata_it) < batch_size
    /\ temp_bs = batch_size
    /\ pc = "returned"
    /\ Shape(mem2) = <<Len(testdata_it), NumOutputs>>
    /\ Len(ret[1]) = NumSteps

====
